---- MODULE Spec2Model ----
(***************************************************************************)
(* IFSC finder bot: the CSV lookup (load_csv, search_ifsc) and the         *)
(* three-step Telegram conversation that drives it                         *)
(* (src/telegram_ifsc_bot.py).                                             *)
(*                                                                         *)
(* Text is modelled as a sequence of character codes (ASCII), so that      *)
(* str.strip, str.lower, the code-point order of strings and the regular   *)
(* expression of str.contains are computed, not assumed.  The characters   *)
(* that occur are the space (32), '(' (40), 'A'..'Z' (65..90) and          *)
(* 'a'..'z' (97..122).                                                     *)
(***************************************************************************)
EXTENDS Integers, Sequences, FiniteSets, TLC

VARIABLES csv, cached_df, conv, user_data, entered, call

vars == <<csv, cached_df, conv, user_data, entered, call>>

(***************************************************************************)
(* Bounds of the model.                                                    *)
(***************************************************************************)
\* the longest ifsc.csv (data rows) the search is checked on
MaxRows == 4

(***************************************************************************)
(* Python values.  None is a value that no text equals (every character    *)
(* code is positive).                                                      *)
(***************************************************************************)
None == <<-1>>

\* difflib.get_close_matches(..., n=3, cutoff=0.4), as the pair 4/10
SuggestN == 3
CutoffNum == 4
CutoffDen == 10

(***************************************************************************)
(* str.strip, str.lower, the order of str, and the substring test.         *)
(***************************************************************************)
IsSpace(c) == c = 32

RECURSIVE lstrip(_)
lstrip(s) == IF s # <<>> /\ IsSpace(Head(s)) THEN lstrip(Tail(s)) ELSE s

RECURSIVE rstrip(_)
rstrip(s) ==
    IF s # <<>> /\ IsSpace(s[Len(s)]) THEN rstrip(SubSeq(s, 1, Len(s) - 1)) ELSE s

strip(s) == rstrip(lstrip(s))

lower_char(c) == IF c >= 65 /\ c <= 90 THEN c + 32 ELSE c

lower(s) == [i \in 1..Len(s) |-> lower_char(s[i])]

\* s < t for Python str: by code point, a proper prefix is smaller
RECURSIVE str_lt(_, _)
str_lt(s, t) ==
    IF t = <<>> THEN FALSE
    ELSE IF s = <<>> THEN TRUE
    ELSE IF Head(s) # Head(t) THEN Head(s) < Head(t)
    ELSE str_lt(Tail(s), Tail(t))

\* p occurs in s as a contiguous run (the empty p occurs in every s)
is_substring(p, s) ==
    \E i \in 1..(Len(s) - Len(p) + 1) : SubSeq(s, i, i + Len(p) - 1) = p

(***************************************************************************)
(* re.compile on the pattern of Series.str.contains (regex=True is the     *)
(* default).  Of the characters modelled only '(' is a metacharacter, and  *)
(* since no ')' can close it the pattern does not compile (re.error:       *)
(* missing ), unterminated subpattern).  A pattern of letters and spaces   *)
(* is searched for as a plain substring.                                   *)
(***************************************************************************)
regex_compiles(pat) == \A i \in 1..Len(pat) : pat[i] # 40

regex_search(pat, s) == is_substring(pat, s)

(***************************************************************************)
(* difflib.SequenceMatcher(a = candidate, b = word), no junk (autojunk     *)
(* only acts on sequences of 200 or more elements).                        *)
(***************************************************************************)
\* length of the common run of a from i and b from j, inside a[..ahi], b[..bhi]
RECURSIVE run_length(_, _, _, _, _, _)
run_length(a, b, i, j, ahi, bhi) ==
    IF i > ahi \/ j > bhi \/ a[i] # b[j] THEN 0
    ELSE 1 + run_length(a, b, i + 1, j + 1, ahi, bhi)

\* find_longest_match on a[alo..ahi], b[blo..bhi] (1-based, inclusive): the
\* longest block; of the longest the one that starts earliest in a; of those
\* the one that starts earliest in b.
find_longest_match(a, b, alo, ahi, blo, bhi) ==
    LET cand == { <<i, j>> : i \in alo..ahi, j \in blo..bhi }
        size(p) == run_length(a, b, p[1], p[2], ahi, bhi)
        better(p, q) ==
            \/ size(p) > size(q)
            \/ size(p) = size(q) /\ p[1] < q[1]
            \/ size(p) = size(q) /\ p[1] = q[1] /\ p[2] <= q[2]
    IN  IF cand = {} THEN [i |-> alo, j |-> blo, size |-> 0]
        ELSE LET best == CHOOSE p \in cand : \A q \in cand : better(p, q)
             IN  [i |-> best[1], j |-> best[2], size |-> size(best)]

\* the number of matched elements: sum of the sizes of get_matching_blocks
RECURSIVE matches(_, _, _, _, _, _)
matches(a, b, alo, ahi, blo, bhi) ==
    IF alo > ahi \/ blo > bhi THEN 0
    ELSE LET m == find_longest_match(a, b, alo, ahi, blo, bhi)
         IN  IF m.size = 0 THEN 0
             ELSE m.size
                  + matches(a, b, alo, m.i - 1, blo, m.j - 1)
                  + matches(a, b, m.i + m.size, ahi, m.j + m.size, bhi)

\* _calculate_ratio(matches, length): 2.0 * matches / length, 1.0 when length
\* is 0; kept as the fraction <<numerator, denominator>>
calculate_ratio(m, length) == IF length = 0 THEN <<1, 1>> ELSE <<2 * m, length>>

ratio(a, b) == calculate_ratio(matches(a, b, 1, Len(a), 1, Len(b)), Len(a) + Len(b))

\* the number of occurrences of c in s
count(s, c) == Cardinality({ i \in 1..Len(s) : s[i] = c })

Min(x, y) == IF x <= y THEN x ELSE y

RECURSIVE sum_over(_, _, _)
sum_over(S, a, b) ==
    IF S = {} THEN 0
    ELSE LET c == CHOOSE x \in S : TRUE
         IN  Min(count(a, c), count(b, c)) + sum_over(S \ {c}, a, b)

\* quick_ratio: the multiset intersection of the two sequences
quick_ratio(a, b) ==
    calculate_ratio(sum_over({ a[i] : i \in 1..Len(a) }, a, b), Len(a) + Len(b))

\* real_quick_ratio: from the lengths alone
real_quick_ratio(a, b) == calculate_ratio(Min(Len(a), Len(b)), Len(a) + Len(b))

\* comparisons of the float scores (fractions with positive denominators)
score_ge(r, s) == r[1] * s[2] >= s[1] * r[2]
score_eq(r, s) == r[1] * s[2] = s[1] * r[2]
score_gt(r, s) == r[1] * s[2] > s[1] * r[2]

\* the order of the (score, x) tuples that heapq.nlargest sorts
tuple_gt(p, q) ==
    \/ score_gt(p.score, q.score)
    \/ score_eq(p.score, q.score) /\ str_lt(q.x, p.x)

tuple_ge(p, q) == tuple_gt(p, q) \/ (score_eq(p.score, q.score) /\ p.x = q.x)

remove_at(s, k) == [i \in 1..(Len(s) - 1) |-> IF i < k THEN s[i] ELSE s[i + 1]]

\* heapq.nlargest(n, result): sorted(result, reverse=True)[:n]
RECURSIVE nlargest(_, _)
nlargest(n, result) ==
    IF n = 0 \/ result = <<>> THEN <<>>
    ELSE LET k == CHOOSE i \in 1..Len(result) :
                      \A j \in 1..Len(result) : tuple_ge(result[i], result[j])
         IN  <<result[k]>> \o nlargest(n - 1, remove_at(result, k))

\* the candidates that pass the three cutoff tests, in the order of possibilities
RECURSIVE scored(_, _, _)
scored(word, possibilities, cutoff) ==
    IF possibilities = <<>> THEN <<>>
    ELSE LET x == Head(possibilities)
             rest == scored(word, Tail(possibilities), cutoff)
         IN  IF /\ score_ge(real_quick_ratio(x, word), cutoff)
                /\ score_ge(quick_ratio(x, word), cutoff)
                /\ score_ge(ratio(x, word), cutoff)
             THEN <<[score |-> ratio(x, word), x |-> x]>> \o rest
             ELSE rest

get_close_matches(word, possibilities, n, cutoff) ==
    LET best == nlargest(n, scored(word, possibilities, cutoff))
    IN  [i \in 1..Len(best) |-> best[i].x]

(***************************************************************************)
(* ifsc.csv.  A row is its State, Bank and Branch cells as they stand in   *)
(* the file; the other columns (District, Address, IFSC, MICR, Contact)    *)
(* are carried by the row's position, which is its DataFrame index.        *)
(***************************************************************************)
Row(s, b, br) == [State |-> s, Bank |-> b, Branch |-> br]

\* " A" / "B " / "ab",  "a" / "b" / "Ac",  "a" / "b" / "bb",  "a" / "c" / "ab"
ShortRows ==
    { Row(<<32, 65>>, <<66, 32>>, <<97, 98>>),
      Row(<<97>>, <<98>>, <<65, 99>>),
      Row(<<97>>, <<98>>, <<98, 98>>),
      Row(<<97>>, <<99>>, <<97, 98>>) }

\* "Delhi" / "HDFC Bank" / "Connaught Place"
HdfcRow ==
    Row(<<68, 101, 108, 104, 105>>,
        <<72, 68, 70, 67, 32, 66, 97, 110, 107>>,
        <<67, 111, 110, 110, 97, 117, 103, 104, 116, 32, 80, 108, 97, 99, 101>>)

\* "Delhi" / "STATE BANK OF INDIA" / "Connaught Place"
SbiRow ==
    Row(<<68, 101, 108, 104, 105>>,
        <<83, 84, 65, 84, 69, 32, 66, 65, 78, 75, 32, 79, 70, 32, 73, 78, 68, 73, 65>>,
        <<67, 111, 110, 110, 97, 117, 103, 104, 116, 32, 80, 108, 97, 99, 101>>)

SeqsUpTo(S, n) == UNION { [1..k -> S] : k \in 0..n }

Datasets ==
    SeqsUpTo(ShortRows, MaxRows)
        \cup { <<HdfcRow>>, <<SbiRow>>, <<HdfcRow, SbiRow>>, <<SbiRow, HdfcRow>> }

\* "a", " A", "delhi"
StateInputs == { <<97>>, <<32, 65>>, <<100, 101, 108, 104, 105>> }

\* "b", "c", "sbi", "hdfc", "hdfc bank", "state bank of india"
BankInputs ==
    { <<98>>, <<99>>, <<115, 98, 105>>, <<104, 100, 102, 99>>,
      <<104, 100, 102, 99, 32, 98, 97, 110, 107>>,
      <<115, 116, 97, 116, 101, 32, 98, 97, 110, 107, 32, 111, 102, 32,
        105, 110, 100, 105, 97>> }

\* "", "A ", "ab", "ac", "bb", "(", "connaught", "connaught place"
BranchInputs ==
    { <<>>, <<65, 32>>, <<97, 98>>, <<97, 99>>, <<98, 98>>, <<40>>,
      <<99, 111, 110, 110, 97, 117, 103, 104, 116>>,
      <<99, 111, 110, 110, 97, 117, 103, 104, 116, 32, 112, 108, 97, 99, 101>> }

(***************************************************************************)
(* load_csv: the first call reads the file and strips the three columns;   *)
(* later calls return the cached frame.                                    *)
(***************************************************************************)
NotLoaded == [loaded |-> FALSE, rows |-> <<>>]

load_csv(cache, file) ==
    IF ~cache.loaded
    THEN [loaded |-> TRUE,
          rows |-> [i \in 1..Len(file) |->
                       Row(strip(file[i].State), strip(file[i].Bank),
                           strip(file[i].Branch))]]
    ELSE cache

(***************************************************************************)
(* search_ifsc.  The result is (records, suggestions), the records as the  *)
(* indices of the rows selected, in row order:                             *)
(*   branch "exact":    return exact_result, None                          *)
(*   branch "fallback": return filtered_df, suggestions                    *)
(*   branch "raise":    str.contains raised re.error, nothing is returned  *)
(***************************************************************************)
\* (variant: of the rows selected only the last is kept)
select_last(mask) ==
    LET hits == { i \in 1..Len(mask) : mask[i] }
    IN  IF hits = {} THEN <<>>
        ELSE <<CHOOSE i \in hits : \A j \in hits : j <= i>>

\* df[mask]: the indices i with mask[i], ascending (mask is a boolean Series)
RECURSIVE select_upto(_, _)
select_upto(mask, n) ==
    IF n = 0 THEN <<>>
    ELSE IF mask[n] THEN Append(select_upto(mask, n - 1), n)
    ELSE select_upto(mask, n - 1)

select(mask) == select_upto(mask, Len(mask))

\* (variant: the frame's columns are compared without .str.lower())
exact_mask_cased(df, state_lower, bank_lower, branch_lower, i) ==
    /\ df[i].State = state_lower
    /\ df[i].Bank = bank_lower
    /\ df[i].Branch = branch_lower

exact_mask(df, state_lower, bank_lower, branch_lower, i) ==
    /\ lower(df[i].State) = state_lower
    /\ lower(df[i].Bank) = bank_lower
    /\ lower(df[i].Branch) = branch_lower

\* (variant: the candidate branches are those of the state, of any bank)
scope_mask_any_bank(df, state_lower, bank_lower, i) ==
    lower(df[i].State) = state_lower

scope_mask(df, state_lower, bank_lower, i) ==
    /\ lower(df[i].State) = state_lower
    /\ lower(df[i].Bank) = bank_lower

partial_mask(df, state_lower, bank_lower, branch_lower, i) ==
    /\ lower(df[i].State) = state_lower
    /\ lower(df[i].Bank) = bank_lower
    /\ regex_search(branch_lower, lower(df[i].Branch))

\* (variant: n=4)
close_matches_n4(branch_lower, branches) ==
    get_close_matches(branch_lower, branches, SuggestN + 1, <<CutoffNum, CutoffDen>>)

\* (variant: cutoff=0.0, no candidate is discarded)
close_matches_no_cutoff(branch_lower, branches) ==
    get_close_matches(branch_lower, branches, SuggestN, <<0, CutoffDen>>)

close_matches(branch_lower, branches) ==
    get_close_matches(branch_lower, branches, SuggestN, <<CutoffNum, CutoffDen>>)

search_ifsc(df, state, bank, branch) ==
    LET state_lower == lower(strip(state))
        bank_lower == lower(strip(bank))
        branch_lower == lower(strip(branch))
        exact_result ==
            select([i \in 1..Len(df) |->
                       exact_mask(df, state_lower, bank_lower, branch_lower, i)])
        scope ==
            select([i \in 1..Len(df) |-> scope_mask(df, state_lower, bank_lower, i)])
        branches == [k \in 1..Len(scope) |-> lower(df[scope[k]].Branch)]
        suggestions == close_matches(branch_lower, branches)
        filtered_df ==
            select([i \in 1..Len(df) |->
                       partial_mask(df, state_lower, bank_lower, branch_lower, i)])
    IN  IF exact_result # <<>>
        THEN [branch |-> "exact", records |-> exact_result, suggestions |-> <<>>]
        ELSE IF ~regex_compiles(branch_lower)
        THEN [branch |-> "raise", records |-> <<>>, suggestions |-> <<>>]
        ELSE [branch |-> "fallback", records |-> filtered_df,
              suggestions |-> suggestions]

(***************************************************************************)
(* The conversation.  ConversationHandler keeps one state per              *)
(* (chat, user) pair (per_chat and per_user are on by default), and        *)
(* context.user_data is one dict per user.                                 *)
(***************************************************************************)
\* STATE, BANK, BRANCH = range(3) (STATE is a reserved word here);
\* END is ConversationHandler.END
STATE_ == 0
BANK == 1
BRANCH == 2
END == -1

\* one user alone in a private chat, and a group chat with both users
Keys == { <<"chat1", "user1">>, <<"chat2", "user1">>, <<"chat2", "user2">> }

Users == { k[2] : k \in Keys }

\* the text messages sent at each step: " a", "C" / "b" / "ab", "("
StateTexts == { <<32, 97>>, <<67>> }
BankTexts == { <<98>> }
BranchTexts == { <<97, 98>>, <<40>> }

\* the files the conversations are run on: the empty file, and
\* "a" / "b" / "ba",  "c" / "b" / "ab"
ConvDatasets ==
    { <<>>, <<Row(<<97>>, <<98>>, <<98, 97>>), Row(<<99>>, <<98>>, <<97, 98>>)>> }

NoEntry == [state |-> None, bank |-> None]

TypeOK ==
    /\ cached_df.loaded \in BOOLEAN
    /\ conv \in [Keys -> {STATE_, BANK, BRANCH, END}]
    /\ DOMAIN user_data = Users
    /\ DOMAIN entered = Keys
    /\ Len(call) <= 1

\* search_ifsc called directly with the arguments (state, bank, branch)
Search(state, bank, branch) ==
    /\ call = <<>>
    /\ cached_df' = load_csv(cached_df, csv)
    /\ call' = <<[by |-> None, state |-> state, bank |-> bank, branch |-> branch,
                  result |-> search_ifsc(cached_df'.rows, state, bank, branch),
                  reply |-> "none"]>>
    /\ UNCHANGED <<csv, conv, user_data, entered>>

\* /start, the entry point: taken when the key has no conversation
start(k) ==
    /\ conv[k] = END
    /\ conv' = [conv EXCEPT ![k] = STATE_]
    /\ entered' = [entered EXCEPT ![k] = NoEntry]
    /\ UNCHANGED <<csv, cached_df, user_data, call>>

get_state(k, text) ==
    /\ conv[k] = STATE_
    /\ LET user_state == strip(text)
       IN  /\ user_data' = [user_data EXCEPT ![k[2]].state = user_state]
           /\ entered' = [entered EXCEPT ![k].state = user_state]
    /\ conv' = [conv EXCEPT ![k] = BANK]
    /\ UNCHANGED <<csv, cached_df, call>>

get_bank(k, text) ==
    /\ conv[k] = BANK
    /\ LET user_bank == strip(text)
       IN  /\ user_data' = [user_data EXCEPT ![k[2]].bank = user_bank]
           /\ entered' = [entered EXCEPT ![k].bank = user_bank]
    /\ conv' = [conv EXCEPT ![k] = BRANCH]
    /\ UNCHANGED <<csv, cached_df, call>>

\* what process_query sends for a result, unless the 25 s of wait_for ran out
reply_of(result, timed_out) ==
    IF result.branch = "raise" THEN "error"
    ELSE IF timed_out THEN "timeout"
    ELSE IF result.records = <<>>
         THEN IF result.suggestions # <<>> THEN "suggestions" ELSE "no_result"
         ELSE "records"

\* get_branch: the search runs inside process_query; an exception of
\* search_ifsc is no TimeoutError, so it leaves get_branch before the return
\* of ConversationHandler.END and the conversation keeps its state.
get_branch(k, text, timed_out) ==
    /\ conv[k] = BRANCH
    /\ LET user_branch == strip(text)
           state == user_data[k[2]].state
           bank == user_data[k[2]].bank
           df == load_csv(cached_df, csv)
           result == IF state = None \/ bank = None
                     THEN [branch |-> "raise", records |-> <<>>, suggestions |-> <<>>]
                     ELSE search_ifsc(df.rows, state, bank, user_branch)
       IN  /\ cached_df' = df
           /\ call' = <<[by |-> k, state |-> state, bank |-> bank,
                         branch |-> user_branch,
                         result |-> result,
                         reply |-> reply_of(result, timed_out)]>>
           /\ IF result.branch = "raise"
              THEN UNCHANGED <<conv, entered>>
              ELSE /\ conv' = [conv EXCEPT ![k] = END]
                   /\ entered' = [entered EXCEPT ![k] = NoEntry]
    /\ UNCHANGED <<csv, user_data>>

\* /cancel, the fallback of every step
cancel(k) ==
    /\ conv[k] # END
    /\ conv' = [conv EXCEPT ![k] = END]
    /\ entered' = [entered EXCEPT ![k] = NoEntry]
    /\ UNCHANGED <<csv, cached_df, user_data, call>>

\* conversation_timeout=60: a conversation idle for 60 s is ended
conversation_timeout(k) ==
    /\ conv[k] # END
    /\ conv' = [conv EXCEPT ![k] = END]
    /\ entered' = [entered EXCEPT ![k] = NoEntry]
    /\ UNCHANGED <<csv, cached_df, user_data, call>>

InitCommon ==
    /\ cached_df = NotLoaded
    /\ conv = [k \in Keys |-> END]
    /\ user_data = [u \in Users |-> NoEntry]
    /\ entered = [k \in Keys |-> NoEntry]
    /\ call = <<>>

(***************************************************************************)
(* SearchSpec: search_ifsc on every file and every argument triple.        *)
(***************************************************************************)
SearchInit == csv \in Datasets /\ InitCommon

SearchNext ==
    \E state \in StateInputs, bank \in BankInputs, branch \in BranchInputs :
        Search(state, bank, branch)

SearchSpec == SearchInit /\ [][SearchNext]_vars

(***************************************************************************)
(* Spec: the conversations of the bot, updates handled one at a time.      *)
(***************************************************************************)
Init == csv \in ConvDatasets /\ InitCommon

Next ==
    \E k \in Keys :
        \/ start(k)
        \/ \E text \in StateTexts : get_state(k, text)
        \/ \E text \in BankTexts : get_bank(k, text)
        \/ \E text \in BranchTexts, timed_out \in BOOLEAN :
              get_branch(k, text, timed_out)
        \/ cancel(k)
        \/ conversation_timeout(k)

Spec == Init /\ [][Next]_vars

(***************************************************************************)
(* What the claims speak of.                                               *)
(***************************************************************************)
Called == call # <<>>

Last == call[1]

Range(s) == { s[i] : i \in DOMAIN s }

\* a row of the file, trimmed and lower-cased
NormState(i) == lower(strip(csv[i].State))
NormBank(i) == lower(strip(csv[i].Bank))
NormBranch(i) == lower(strip(csv[i].Branch))

\* the last query was made with exactly the normalized triple of row i
QueryIsRow(i) ==
    /\ Last.state = NormState(i)
    /\ Last.bank = NormBank(i)
    /\ Last.branch = NormBranch(i)

\* row i is of the (state, bank) pair of the last query
InScope(i) ==
    /\ NormState(i) = lower(strip(Last.state))
    /\ NormBank(i) = lower(strip(Last.bank))

PoolRows == { i \in 1..Len(csv) : InScope(i) }

\* similarity of a candidate to the trimmed, lower-cased branch input
Sim(x) == ratio(x, lower(strip(Last.branch)))

Fallback == Called /\ Last.result.branch = "fallback"

\* neither the exact nor the partial mask selected a row
NoBranchMatch == Fallback /\ Last.result.records = <<>>

\* C1: a query with the trimmed, lower-cased triple of a loaded row returns
\* that row through the exact-match branch (suggestions is None), whatever
\* other rows the file holds.
C1_RoundTrip ==
    Called =>
        \A i \in 1..Len(csv) :
            QueryIsRow(i) =>
                /\ Last.result.branch = "exact"
                /\ i \in Range(Last.result.records)

C1_Witness ==
    /\ Called
    /\ Len(csv) >= 2
    /\ \E i \in 1..Len(csv) :
          /\ QueryIsRow(i)
          /\ csv[i].State # Last.state
          /\ csv[i].Bank # Last.bank
          /\ i \in Range(Last.result.records)
          /\ \E j \in 1..Len(csv) : ~QueryIsRow(j)

\* C2: with the bank input "sbi" and STATE BANK OF INDIA a bank of the chosen
\* state in the file, the query is resolved as the query for
\* STATE BANK OF INDIA is: same records, same suggestions.
C2_AliasResolves ==
    (/\ Called
     /\ lower(strip(Last.bank)) = <<115, 98, 105>>
     /\ \E i \in 1..Len(csv) :
           /\ NormState(i) = lower(strip(Last.state))
           /\ NormBank(i) = lower(SbiRow.Bank))
    => Last.result = search_ifsc(cached_df.rows, Last.state, SbiRow.Bank, Last.branch)

\* C3: on the file of the single row Delhi / HDFC Bank / Connaught Place the
\* query ("delhi", "hdfc", "connaught") returns exactly that record.
C3_ScenarioOne ==
    (/\ Called
     /\ csv = <<HdfcRow>>
     /\ Last.state = <<100, 101, 108, 104, 105>>
     /\ Last.bank = <<104, 100, 102, 99>>
     /\ Last.branch = <<99, 111, 110, 110, 97, 117, 103, 104, 116>>)
    => (Last.result.branch # "raise" /\ Last.result.records = <<1>>)

\* C4 as claimed: without an exact match the suggestions are at most 3, in
\* non-increasing similarity, equal similarities in ascending order of the
\* candidate string.
C4_TiesAscending ==
    Fallback =>
        LET sug == Last.result.suggestions
        IN  /\ Len(sug) <= 3
            /\ \A i, j \in 1..Len(sug) :
                  i < j =>
                      /\ score_ge(Sim(sug[i]), Sim(sug[j]))
                      /\ score_eq(Sim(sug[i]), Sim(sug[j])) => ~str_lt(sug[j], sug[i])

\* C4, amended: without an exact match the suggestions are at most 3, in
\* non-increasing similarity to the trimmed, lower-cased branch input, equal
\* similarities in descending order of the candidate string.
C4_TiesDescending ==
    Fallback =>
        LET sug == Last.result.suggestions
        IN  /\ Len(sug) <= 3
            /\ \A i, j \in 1..Len(sug) :
                  i < j =>
                      /\ score_ge(Sim(sug[i]), Sim(sug[j]))
                      /\ score_eq(Sim(sug[i]), Sim(sug[j])) => ~str_lt(sug[i], sug[j])

C4_Witness ==
    /\ Fallback
    /\ Cardinality(PoolRows) > 3
    /\ Len(Last.result.suggestions) = 3
    /\ \E i \in 1..2 :
          /\ Last.result.suggestions[i] # Last.result.suggestions[i + 1]
          /\ score_eq(Sim(Last.result.suggestions[i]),
                      Sim(Last.result.suggestions[i + 1]))

\* C5: every record returned and every string suggested comes from a row
\* whose trimmed, lower-cased State and Bank are those of the query.
C5_Scoped ==
    Called =>
        /\ \A i \in Range(Last.result.records) : i \in PoolRows
        /\ \A x \in Range(Last.result.suggestions) :
              \E i \in PoolRows : NormBranch(i) = x

C5_Witness ==
    /\ Fallback
    /\ Last.result.suggestions # <<>>
    /\ \E i \in 1..Len(csv) :
          /\ i \notin PoolRows
          /\ NormState(i) = lower(strip(Last.state))
          /\ score_ge(Sim(NormBranch(i)), <<2, 5>>)
          /\ NormBranch(i) \notin Range(Last.result.suggestions)

\* the rows of the file whose normalized triple is that of row i, ascending
RECURSIVE SameTriple(_, _)
SameTriple(i, n) ==
    IF n = 0 THEN <<>>
    ELSE IF <<NormState(n), NormBank(n), NormBranch(n)>>
                = <<NormState(i), NormBank(i), NormBranch(i)>>
         THEN Append(SameTriple(i, n - 1), n)
         ELSE SameTriple(i, n - 1)

\* C6 as claimed: of several rows with the same normalized triple the query
\* for that triple returns one record, the last of them.
C6_LastWins ==
    Called =>
        \A i \in 1..Len(csv) :
            QueryIsRow(i) =>
                LET same == SameTriple(i, Len(csv))
                IN  Last.result.records = <<same[Len(same)]>>

\* C6, amended: the query for that triple returns every one of these rows,
\* in the order of the file, through the exact-match branch.
C6_AllDuplicates ==
    Called =>
        \A i \in 1..Len(csv) :
            QueryIsRow(i) =>
                /\ Last.result.branch = "exact"
                /\ Last.result.records = SameTriple(i, Len(csv))

C6_Witness ==
    /\ Called
    /\ \E i \in 1..Len(csv) : QueryIsRow(i)
    /\ Len(Last.result.records) >= 2
    /\ Len(csv) > Len(Last.result.records)
    /\ Last.result.records[1] + 1 < Last.result.records[2]

\* C7 as claimed: when no branch is matched, a pool of k >= 1 branches gives
\* min(k, 3) suggestions.
C7_NoThreshold ==
    NoBranchMatch =>
        Len(Last.result.suggestions) = Min(Cardinality(PoolRows), 3)

\* C7, amended: when no branch is matched, the suggestions are the up-to-3 most similar of the pool's
\* branches whose similarity is at least 0.4: with k' such rows in the pool
\* there are min(k', 3) suggestions, each of similarity >= 0.4, and no
\* branch left out is more similar than one suggested.
C7_AboveCutoff ==
    NoBranchMatch =>
        LET sug == Last.result.suggestions
            close == { i \in PoolRows : score_ge(Sim(NormBranch(i)), <<2, 5>>) }
        IN  /\ Len(sug) = Min(Cardinality(close), 3)
            /\ \A j \in 1..Len(sug) : score_ge(Sim(sug[j]), <<2, 5>>)
            /\ \A i \in PoolRows, j \in 1..Len(sug) :
                  NormBranch(i) \notin Range(sug)
                      => score_ge(Sim(sug[j]), Sim(NormBranch(i)))

C7_Witness ==
    /\ NoBranchMatch
    /\ Last.result.suggestions # <<>>
    /\ Len(Last.result.suggestions) < Min(Cardinality(PoolRows), 3)

\* C8: search_ifsc returns a (records, suggestions) value for every input
\* and never raises.
C8_NeverRaises == Called => Last.result.branch # "raise"

\* C9: the steps of a conversation go /start, STATE, BANK, BRANCH, END; the
\* search is made by get_branch alone, at the BRANCH step; once get_branch
\* has handled its message the conversation is ended, whatever the outcome;
\* /cancel ends the conversation without a search.
C9_StrictOrder ==
    [][\A k \in Keys :
          /\ conv'[k] # conv[k] =>
                \/ conv[k] = END /\ conv'[k] = STATE_
                \/ conv[k] = STATE_ /\ conv'[k] = BANK
                \/ conv[k] = BANK /\ conv'[k] = BRANCH
                \/ conv'[k] = END
          /\ (call' # call /\ call'[1].by = k) => conv[k] = BRANCH
          /\ (\E text \in BranchTexts, timed_out \in BOOLEAN :
                 get_branch(k, text, timed_out)) => conv'[k] = END
          /\ cancel(k) => (conv'[k] = END /\ call' = call)]_vars

\* C10: the state and bank that get_branch passes to search_ifsc are the
\* ones get_state and get_bank took in that same conversation.
C10_OwnValues ==
    [][\A k \in Keys :
          (\E text \in BranchTexts, timed_out \in BOOLEAN :
              get_branch(k, text, timed_out))
          => (call'[1].state = entered[k].state /\ call'[1].bank = entered[k].bank)]_vars

====
